---- MODULE Spec2Model ----
(***************************************************************************)
(* Model of aws_inventory_script.py: the AWSResourceInventory class (tag   *)
(* resolution, the six per-service collectors, run_inventory and           *)
(* generate_reports) and main().                                           *)
(*                                                                         *)
(* Strings that the program transforms or orders (tag values, owner keys)  *)
(* are sequences of code points, so that lower(), replace() and sorted()   *)
(* are computed.  Strings that the program only compares for equality      *)
(* (tag keys, service names) are TLA+ strings.                             *)
(***************************************************************************)
EXTENDS Integers, Sequences, FiniteSets, TLC

VARIABLES
    pc,         \* position of main(): "init", "run", "returned", "exit"
    status,     \* exit status of main(): -1 while running, then 0 or 1
    session,    \* self.session: "none" or "ok"
    clients,    \* self.clients: service name -> cached handle (numbered by creation)
    created,    \* number of handles created by session.client so far
    inventory,  \* self.inventory: owner key -> sequence of records
    fam,        \* the resource family being collected (index in Families), NFam+1 after the last
    stage,      \* position inside the family: "client" (before get_client) or "list"
    pages,      \* pages of the current family already processed
    listed,     \* history: every resource a listing returned, in listing order
    calls,      \* history: the collectors run_inventory has invoked, in order
    failed,     \* history: the families at which a collector's outer except fired
    clientErr,  \* history: the service names for which session.client raised
    results,    \* the value run_inventory returned (dict(self.inventory))
    files,      \* report files written by generate_reports
    summary,    \* content of the summary report
    scope,      \* the runs explored: how many resources and events a run may hold
    rtags,      \* extract_app_name on its own: its tags argument
    rdone,      \* extract_app_name on its own: TRUE once it has returned
    rres,       \* extract_app_name on its own: the value it returned
    asked       \* history: every get_client call, its service name and the handle
                \* it returned (0 when session.client raised)

vars == <<pc, status, session, clients, created, inventory, fam, stage, pages,
          listed, calls, failed, clientErr, results, files, summary,
          scope, rtags, rdone, rres, asked>>

(***************************************************************************)
(* Bounds of the model.                                                    *)
(***************************************************************************)
\* events of one run: resources listed plus collectors aborted by a failure
MaxEvents == 2
\* the same, for the runs explored under fairness
MaxFairEvents == 1
\* pages of one paginated listing
MaxPages == 2
\* entries of a tag sequence handed to extract_app_name on its own
MaxTags == 3
\* records of an Inventory handed to generate_reports on its own
MaxRecords == 3

\* get_client calls of one run, when get_client is called on its own
MaxCalls == 3

(***************************************************************************)
(* Characters and strings.                                                 *)
(***************************************************************************)
\* code points of ' ' and '-'
SPACE == 32
HYPHEN == 45

\* "untagged"
UNTAGGED == <<117, 110, 116, 97, 103, 103, 101, 100>>

\* str.lower() on one code point (ASCII letters)
LowerChar(c) == IF c >= 65 /\ c <= 90 THEN c + 32 ELSE c

\* str.lower()
Lower(v) == [i \in 1..Len(v) |-> LowerChar(v[i])]

\* str.replace(' ', '-')
ReplaceSpace(v) == [i \in 1..Len(v) |-> IF v[i] = SPACE THEN HYPHEN ELSE v[i]]

\* a resolver that forgets to lower-case
NormalizeValue_NoLower(v) == ReplaceSpace(v)

\* value.lower().replace(' ', '-')
NormalizeValue(v) == ReplaceSpace(Lower(v))

\* a key list matched without regard to letter case
app_tag_keys_AnyCase ==
    {"Application", "App", "application", "app", "Project", "project",
     "APPLICATION", "APP", "PROJECT"}

\* self.app_tag_keys
app_tag_keys == {"Application", "App", "application", "app", "Project", "project"}

(***************************************************************************)
(* Tags.  An element of a tags argument is either a dict                   *)
(* {'Key': k, 'Value': v} (dict = TRUE) or something else, such as the bare *)
(* string that iterating a flat key->value mapping yields (dict = FALSE).  *)
(* A flat mapping is a sequence of <<key, value>> pairs with distinct keys *)
(* (Python dicts keep insertion order).                                    *)
(***************************************************************************)
TagDict(k, v) == [dict |-> TRUE, Key |-> k, Value |-> v]
BareKey(k) == [dict |-> FALSE, Key |-> k, Value |-> <<>>]

\* [{'Key': k, 'Value': v} for k, v in mapping.items()]
PairsOf(m) == [i \in 1..Len(m) |-> TagDict(m[i][1], m[i][2])]

\* what "for tag in mapping" iterates over: the keys
IterMapping(m) == [i \in 1..Len(m) |-> BareKey(m[i][1])]

\* the loop of extract_app_name from position i on
RECURSIVE ScanTags(_, _)
ScanTags(tags, i) ==
    IF i > Len(tags) THEN UNTAGGED
    ELSE IF ~tags[i].dict THEN ScanTags(tags, i + 1)
    ELSE IF tags[i].Key \in app_tag_keys /\ tags[i].Value # <<>>
         THEN NormalizeValue(tags[i].Value)
         ELSE ScanTags(tags, i + 1)

\* extract_app_name(self, tags); None and [] both take the "not tags" branch
extract_app_name(tags) ==
    IF tags = <<>> THEN UNTAGGED ELSE ScanTags(tags, 1)

(***************************************************************************)
(* The resource families, in the order run_inventory reaches them.  RDS    *)
(* and API Gateway collect two families each.                              *)
(***************************************************************************)
Families == <<"Function", "DB Instance", "DB Cluster", "Table", "Bucket",
              "Instance", "REST API", "HTTP API">>
NFam == Len(Families)

\* the collector (1..6, in run_inventory's order) a family belongs to
CollectorOf(f) == <<1, 2, 2, 3, 4, 5, 6, 6>>[f]
AllCollectors == <<1, 2, 3, 4, 5, 6>>

\* the 'service' field of the family's records
ServiceOf(f) == <<"Lambda", "RDS", "RDS", "DynamoDB", "S3", "EC2",
                  "API Gateway", "API Gateway v2">>[f]

\* the service name the family hands to get_client
ClientOf(f) == <<"lambda", "rds", "rds", "dynamodb", "s3", "ec2",
                 "apigateway", "apigatewayv2">>[f]

\* DB clusters reuse rds_client: every other family starts with get_client
StageFor(f) == IF f = 3 THEN "list" ELSE "client"

\* list_buckets is one call, every other listing goes through a paginator
Paginated(f) == f # 5

\* families whose records carry a timestamp field
HasTime(f) == f \in {5, 6, 7, 8}

\* families whose tags come from a call of their own (not inline in the listing)
FetchesTags(f) == f \in {1, 2, 3, 4, 5, 7}

(***************************************************************************)
(* What the service answers for one listed resource: the outcome of the    *)
(* tag call (tagres) and the tags it returns (raw, as <<key, value>>       *)
(* pairs), the outcome of describe_table (detail), of get_bucket_location  *)
(* (loc), and whether the listing entry carries its timestamp (time).      *)
(* Fields a family does not use are "n/a"; answers of calls that are never *)
(* made for the resource are fixed.  Every listing entry carries the       *)
(* fields that identify it (FunctionName and FunctionArn, Name, InstanceId, *)
(* id, ...); the instances of all reservations of a page form one sequence. *)
(***************************************************************************)
RawTagChoices ==
    { <<>>,
      << <<"Name", <<120>> >>, <<"Application", <<80, 97, 121>> >> >> }

TagOutcomes(f) ==
    IF f = 5 THEN {"ok", "NoSuchTagSet", "error"}
    ELSE IF FetchesTags(f) THEN {"ok", "error"} ELSE {"ok"}

Descriptors(f) ==
    { d \in [tagres : TagOutcomes(f),
             raw    : RawTagChoices,
             detail : IF f = 4 THEN {"ok", "error"} ELSE {"n/a"},
             loc    : IF f = 5 THEN {"null", "eu-west-1", "error"} ELSE {"n/a"},
             time   : IF HasTime(f) THEN {"present", "absent"} ELSE {"n/a"}] :
        /\ d.tagres # "ok" => d.raw = <<>>
        /\ d.detail = "error" => d.tagres = "ok" /\ d.raw = <<>>
        /\ (d.tagres = "error" \/ (f = 5 /\ d.time = "absent")) => d.loc \in {"null", "n/a"} }

\* the 'tags' value of the record: the TagList / TagSet / Tags of the answer,
\* the pairs built from a flat mapping, [] on NoSuchTagSet
TagsOf(f, d) == IF d.tagres = "NoSuchTagSet" THEN <<>> ELSE PairsOf(d.raw)

\* the argument the collector hands to extract_app_name: the HTTP API
\* collector hands over the flat mapping api.get('Tags', {}) itself
ResolverArg(f, d) == IF f = 8 THEN IterMapping(d.raw) ELSE TagsOf(f, d)

\* the body of the per-resource try raises (and the resource is skipped):
\* describe_table or the tag call raises, or bucket['CreationDate'] is missing
Raises(f, d) ==
    \/ d.detail = "error"
    \/ d.tagres = "error"
    \/ f = 5 /\ d.time = "absent"

\* creation_date / launch_time / created_date
TimeField(f, d) ==
    IF ~HasTime(f) THEN "n/a" ELSE IF d.time = "present" THEN "iso" ELSE ""

\* 'region' of a bucket
RegionField(f, d) ==
    IF f # 5 THEN "n/a"
    ELSE IF d.loc = "error" THEN "Unknown"
    ELSE IF d.loc = "null" THEN "us-east-1" ELSE d.loc

\* resource_info
ResourceInfo(f, name, d) ==
    [service       |-> ServiceOf(f),
     resource_type |-> Families[f],
     name          |-> name,
     app_name      |-> extract_app_name(ResolverArg(f, d)),
     time          |-> TimeField(f, d),
     region        |-> RegionField(f, d),
     tags          |-> TagsOf(f, d)]

\* self.inventory[app_name].append(resource_info)
AppendRecord_Prepend(inv, rec) ==
    [k \in DOMAIN inv \cup {rec.app_name} |->
        IF k = rec.app_name
        THEN <<rec>> \o (IF k \in DOMAIN inv THEN inv[k] ELSE <<>>)
        ELSE inv[k]]

AppendRecord(inv, rec) ==
    [k \in DOMAIN inv \cup {rec.app_name} |->
        IF k = rec.app_name
        THEN (IF k \in DOMAIN inv THEN inv[k] ELSE <<>>) \o <<rec>>
        ELSE inv[k]]

\* the body of the loop over one listed resource
ProcessResource(inv, f, name, d) ==
    IF Raises(f, d) THEN inv ELSE AppendRecord(inv, ResourceInfo(f, name, d))

\* the loop over the resources of one page; the resource at position i is
\* named base + i
RECURSIVE ProcessPage(_, _, _, _, _)
ProcessPage(inv, f, base, page, i) ==
    IF i > Len(page) THEN inv
    ELSE ProcessPage(ProcessResource(inv, f, base + i, page[i]), f, base, page, i + 1)

\* pages a listing may return when n more resources fit the bound
PagesUpTo(f, n) ==
    UNION { [1..k -> Descriptors(f)] : k \in 0..n }

(***************************************************************************)
(* The summary report of generate_reports.                                 *)
(***************************************************************************)
\* Python's str <, on code points
RECURSIVE StrLess(_, _)
StrLess(a, b) ==
    IF a = <<>> THEN b # <<>>
    ELSE IF b = <<>> THEN FALSE
    ELSE IF Head(a) # Head(b) THEN Head(a) < Head(b)
    ELSE StrLess(Tail(a), Tail(b))

\* keys taken in whatever order the mapping yields them (here: descending)
RECURSIVE SortedKeys_Unsorted(_)
SortedKeys_Unsorted(S) ==
    IF S = {} THEN <<>>
    ELSE LET m == CHOOSE k \in S : \A o \in S \ {k} : StrLess(o, k)
         IN  <<m>> \o SortedKeys_Unsorted(S \ {m})

\* the keys of sorted(self.inventory.items()): the keys are distinct, so the
\* tuples are ordered by key alone
RECURSIVE SortedKeys(_)
SortedKeys(S) ==
    IF S = {} THEN <<>>
    ELSE LET m == CHOOSE k \in S : \A o \in S \ {k} : StrLess(k, o)
         IN  <<m>> \o SortedKeys(S \ {m})

\* the loop "for resource in resources" from position i on: service_counts
\* (a defaultdict(int)) and total_resources are incremented once per resource
RECURSIVE ResourceLoop(_, _, _, _)
ResourceLoop(resources, i, counts, total) ==
    IF i > Len(resources) THEN [counts |-> counts, total |-> total]
    ELSE LET s == resources[i].service
             c == IF s \in DOMAIN counts THEN counts[s] ELSE 0
         IN  ResourceLoop(resources, i + 1,
                 [k \in DOMAIN counts \cup {s} |-> IF k = s THEN c + 1 ELSE counts[k]],
                 total + 1)

\* the loop "for app_name, resources in sorted(...)" from position i of the
\* sorted keys on: one block per application (the lines of its per-service
\* counts, then its "Total: len(resources)" line)
RECURSIVE SummaryLoop(_, _, _, _, _)
SummaryLoop(inv, keys, i, blocks, total) ==
    IF i > Len(keys)
    THEN \* "OVERALL TOTAL: total_resources resources across len(self.inventory)"
         [apps |-> blocks, total |-> total, napps |-> Cardinality(DOMAIN inv)]
    ELSE LET after == ResourceLoop(inv[keys[i]], 1, <<>>, total)
         IN  SummaryLoop(inv, keys, i + 1,
                 Append(blocks, [app_name |-> keys[i],
                                 counts   |-> after.counts,
                                 total    |-> Len(inv[keys[i]])]),
                 after.total)

\* the text of the summary file
SummaryOf(inv) == SummaryLoop(inv, SortedKeys(DOMAIN inv), 1, <<>>, 0)

NoSummary == [apps |-> <<>>, total |-> 0, napps |-> 0]
ReportFiles == {"json_file", "csv_file", "summary_file"}

(***************************************************************************)
(* Control flow of run_inventory.                                          *)
(***************************************************************************)
\* a collector without its outer try/except: the failure ends run_inventory
AfterFailure_Propagates(f) == NFam + 1

\* where run_inventory continues after the outer except of the collector of
\* family f: at the first family of the next collector
AfterFailure(f) ==
    IF \E g \in (f + 1)..NFam : CollectorOf(g) # CollectorOf(f)
    THEN CHOOSE g \in (f + 1)..NFam :
            /\ CollectorOf(g) # CollectorOf(f)
            /\ \A h \in (f + 1)..(g - 1) : CollectorOf(h) = CollectorOf(f)
    ELSE NFam + 1

\* control moves from family fam to family g
Goto(g) ==
    /\ fam' = g
    /\ stage' = IF g <= NFam THEN StageFor(g) ELSE "done"
    /\ pages' = 0
    /\ calls' = IF g <= NFam /\ CollectorOf(g) # CollectorOf(fam)
                THEN Append(calls, CollectorOf(g)) ELSE calls

\* the collector's outer "except Exception": log the error and return
Abort ==
    /\ failed' = failed \cup {fam}
    /\ Goto(AfterFailure(fam))

(***************************************************************************)
(* The runs explored.  Either a run holds at most MaxEvents events, an      *)
(* event being a listed resource or a collector aborted by a failure, in   *)
(* every combination; or every listing is empty and any number of          *)
(* collectors fail, up to all of them.                                     *)
(***************************************************************************)
ScopesUpTo(n) ==
    { [resources |-> n, events |-> n],
      [resources |-> 0, events |-> Len(AllCollectors)] }

Events == Len(listed) + Cardinality(failed)

\* a call of the service may raise
MayFail == Events < scope.events

\* resources the next page may hold
Room ==
    LET a == scope.resources - Len(listed)
        b == scope.events - Events
    IN  IF a < b THEN a ELSE b

(***************************************************************************)
(* Initial state and actions.                                              *)
(***************************************************************************)
Start(scopes) ==
    /\ pc = "init"
    /\ status = -1
    /\ session = "none"
    /\ clients = <<>>
    /\ created = 0
    /\ inventory = <<>>
    /\ fam = 1
    /\ stage = "client"
    /\ pages = 0
    /\ listed = <<>>
    /\ calls = <<>>
    /\ failed = {}
    /\ clientErr = {}
    /\ results = <<>>
    /\ files = {}
    /\ summary = NoSummary
    /\ scope \in scopes
    /\ rtags = <<>>
    /\ rdone = FALSE
    /\ rres = <<>>
    /\ asked = <<>>

Init == Start(ScopesUpTo(MaxEvents))

\* main() constructs AWSResourceInventory: boto3.Session() succeeds, or it
\* raises, __init__ re-raises and main returns 1
Construct ==
    /\ pc = "init"
    /\ \E ok \in BOOLEAN :
         IF ok
         THEN /\ session' = "ok"
              /\ pc' = "constructed"
              /\ UNCHANGED status
         ELSE /\ pc' = "exit"
              /\ status' = 1
              /\ UNCHANGED session
    /\ UNCHANGED <<clients, created, inventory, fam, stage, pages, listed, calls,
                   failed, clientErr, results, files, summary, scope, rtags, rdone, rres, asked>>

\* run_inventory is entered and calls its first collector
run_inventory_enter ==
    /\ pc = "constructed"
    /\ pc' = "run"
    /\ calls' = <<CollectorOf(1)>>
    /\ UNCHANGED <<status, session, clients, created, inventory, fam, stage, pages,
                   listed, failed, clientErr, results, files, summary,
                   scope, rtags, rdone, rres, asked>>

\* "service not in self.clients", negated
IsCached_Never(cl, s) == FALSE

IsCached(cl, s) == s \in DOMAIN cl

\* get_client(service): a cached handle is returned; otherwise session.client
\* creates one, which is cached and returned (ok), or raises (~ok) before
\* anything is stored
get_client_body(s, ok) ==
    IF IsCached(clients, s)
    THEN /\ asked' = Append(asked, [service |-> s, handle |-> clients[s]])
         /\ UNCHANGED <<clients, created, clientErr>>
    ELSE IF ok
         THEN /\ clients' = [n \in DOMAIN clients \cup {s} |->
                               IF n = s THEN created + 1 ELSE clients[n]]
              /\ created' = created + 1
              /\ asked' = Append(asked, [service |-> s, handle |-> created + 1])
              /\ UNCHANGED clientErr
         ELSE /\ clientErr' = clientErr \cup {s}
              /\ asked' = Append(asked, [service |-> s, handle |-> 0])
              /\ UNCHANGED <<clients, created>>

\* get_client(service) at the head of a collector (or of its second half):
\* the handle is used for the listing, or the exception of session.client
\* goes to the collector's outer except
get_client ==
    LET s == ClientOf(fam) IN
    \E ok \in (IF MayFail THEN BOOLEAN ELSE {TRUE}) :
        /\ get_client_body(s, ok)
        /\ IF asked'[Len(asked')].handle # 0
           THEN /\ stage' = "list"
                /\ UNCHANGED <<fam, pages, calls, failed>>
           ELSE Abort

\* one listing call (one page of the paginator, or list_buckets) and the loop
\* over its resources; the call may raise into the collector's outer except
list_page ==
    \/ /\ MayFail
       /\ Abort
       /\ UNCHANGED <<inventory, listed>>
    \/ \E page \in PagesUpTo(fam, Room) :
       \E more \in (IF Paginated(fam) /\ pages + 1 < MaxPages THEN BOOLEAN ELSE {FALSE}) :
         /\ inventory' = ProcessPage(inventory, fam, Len(listed), page, 1)
         /\ listed' = listed \o [i \in 1..Len(page) |-> [fam |-> fam, d |-> page[i]]]
         /\ IF more
            THEN /\ pages' = pages + 1
                 /\ UNCHANGED <<fam, stage, calls>>
            ELSE Goto(fam + 1)
         /\ UNCHANGED failed

\* one step of collector c
Collect(c) ==
    /\ pc = "run"
    /\ fam <= NFam
    /\ CollectorOf(fam) = c
    /\ IF stage = "client"
       THEN get_client /\ UNCHANGED <<inventory, listed>>
       ELSE list_page /\ UNCHANGED <<clients, created, clientErr, asked>>
    /\ UNCHANGED <<pc, status, session, results, files, summary, scope, rtags, rdone, rres>>

inventory_lambda_functions == Collect(1)
inventory_rds_instances == Collect(2)
inventory_dynamodb_tables == Collect(3)
inventory_s3_buckets == Collect(4)
inventory_ec2_instances == Collect(5)
inventory_apigateway_apis == Collect(6)

\* run_inventory returns dict(self.inventory) after the last collector
run_inventory_return ==
    /\ pc = "run"
    /\ fam = NFam + 1
    /\ results' = inventory
    /\ pc' = "returned"
    /\ UNCHANGED <<status, session, clients, created, inventory, fam, stage, pages,
                   listed, calls, failed, clientErr, files, summary,
                   scope, rtags, rdone, rres, asked>>

\* generate_reports writes the three files (the disk is taken to be
\* writable), main prints the console summary and returns 0
generate_reports ==
    /\ pc = "returned"
    /\ files' = ReportFiles
    /\ summary' = SummaryOf(inventory)
    /\ pc' = "exit"
    /\ status' = 0
    /\ UNCHANGED <<session, clients, created, inventory, fam, stage, pages,
                   listed, calls, failed, clientErr, results, scope, rtags, rdone, rres, asked>>

Next ==
    \/ Construct
    \/ run_inventory_enter
    \/ inventory_lambda_functions
    \/ inventory_rds_instances
    \/ inventory_dynamodb_tables
    \/ inventory_s3_buckets
    \/ inventory_ec2_instances
    \/ inventory_apigateway_apis
    \/ run_inventory_return
    \/ generate_reports

Spec == Init /\ [][Next]_vars

\* the program is sequential: a step that can be taken is taken
InitFair == Start(ScopesUpTo(MaxFairEvents))
FairSpec == InitFair /\ [][Next]_vars /\ WF_vars(Next)

(***************************************************************************)
(* The tag resolver on its own: extract_app_name applied to every tag      *)
(* sequence of at most MaxTags entries.  The keys are a recognized key, a  *)
(* key that differs from it in letter case only, and a second recognized   *)
(* key; the values are "", "A b", " B" and "a<TAB>B"; one entry is not a   *)
(* dict.                                                                   *)
(***************************************************************************)
ResolverKeys == {"Application", "APPLICATION", "project"}
ResolverValues == { <<>>, <<65, 32, 98>>, <<32, 66>>, <<97, 9, 66>> }
ResolverEntries ==
    { TagDict(k, v) : k \in ResolverKeys, v \in ResolverValues }
        \cup { BareKey("Application") }
TagSeqs == UNION { [1..n -> ResolverEntries] : n \in 0..MaxTags }

InitResolve ==
    /\ pc = "init"
    /\ status = -1
    /\ session = "none"
    /\ clients = <<>>
    /\ created = 0
    /\ inventory = <<>>
    /\ fam = 1
    /\ stage = "client"
    /\ pages = 0
    /\ listed = <<>>
    /\ calls = <<>>
    /\ failed = {}
    /\ clientErr = {}
    /\ results = <<>>
    /\ files = {}
    /\ summary = NoSummary
    /\ scope = [resources |-> 0, events |-> 0]
    /\ rtags \in TagSeqs
    /\ rdone = FALSE
    /\ rres = <<>>
    /\ asked = <<>>

\* one call of extract_app_name(rtags)
Resolve ==
    /\ ~rdone
    /\ rres' = extract_app_name(rtags)
    /\ rdone' = TRUE
    /\ UNCHANGED <<pc, status, session, clients, created, inventory, fam, stage,
                   pages, listed, calls, failed, clientErr, results, files,
                   summary, scope, rtags, asked>>

NextResolve == Resolve

SpecResolve == InitResolve /\ [][NextResolve]_vars

(***************************************************************************)
(* Reading of the claims about the resolver.                               *)
(***************************************************************************)
\* entry i of tags has a recognized owner-tag key and a non-empty value
Recognized(tags, i) ==
    /\ tags[i].dict
    /\ tags[i].Key \in {"Application", "App", "application", "app", "Project", "project"}
    /\ tags[i].Value # <<>>

HasRecognized(tags) == \E i \in 1..Len(tags) : Recognized(tags, i)

\* the value of the first such entry in input order
FirstRecognizedValue(tags) ==
    LET i == CHOOSE j \in 1..Len(tags) :
                 Recognized(tags, j) /\ \A h \in 1..(j - 1) : ~Recognized(tags, h)
    IN  tags[i].Value

IsUpper(c) == c >= 65 /\ c <= 90
IsWhitespace(c) == c \in {32, 9, 10, 13}

\* position i of v is whitespace with a non-whitespace character on both sides
InteriorWhitespace(v, i) ==
    /\ IsWhitespace(v[i])
    /\ \E j \in 1..(i - 1) : ~IsWhitespace(v[j])
    /\ \E j \in (i + 1)..Len(v) : ~IsWhitespace(v[j])

\* out is v lower-cased, with interior whitespace replaced by a hyphen
LoweredInteriorHyphenated(v, out) ==
    /\ Len(out) = Len(v)
    /\ \A i \in 1..Len(v) :
         out[i] = IF InteriorWhitespace(v, i) THEN 45
                  ELSE IF IsUpper(v[i]) THEN v[i] + 32 ELSE v[i]

\* out is v lower-cased, with every space character replaced by a hyphen
\* and every other character kept
LoweredSpacesHyphenated(v, out) ==
    /\ Len(out) = Len(v)
    /\ \A i \in 1..Len(v) :
         out[i] = IF v[i] = 32 THEN 45
                  ELSE IF IsUpper(v[i]) THEN v[i] + 32 ELSE v[i]

\* C4 as stated: for every tag sequence with a recognized key and non-empty
\* value, resolve returns the value of the first such entry, lower-cased and
\* with interior whitespace replaced by a hyphen.
C4_AsStated ==
    (rdone /\ HasRecognized(rtags)) =>
        LoweredInteriorHyphenated(FirstRecognizedValue(rtags), rres)

\* C4 amended: for every tag sequence with a recognized key and non-empty
\* value, resolve returns the value of the first such entry in input order,
\* lower-cased and with every space character (U+0020), leading and trailing
\* ones included, replaced by a hyphen; other whitespace (a tab) is kept.
C4_FirstMatchNormalized ==
    (rdone /\ HasRecognized(rtags)) =>
        LoweredSpacesHyphenated(FirstRecognizedValue(rtags), rres)

\* the first recognized entry stands between a non-matching entry and a later
\* recognized entry with another value, and its value holds an upper-case
\* letter and an interior space
C4_Witness ==
    /\ rdone
    /\ Len(rtags) = 3
    /\ rtags[1] = TagDict("APPLICATION", <<32, 66>>)
    /\ rtags[2] = TagDict("project", <<65, 32, 98>>)
    /\ rtags[3] = TagDict("Application", <<32, 66>>)
    /\ rres = <<97, 45, 98>>

\* C5: resolve returns "untagged" for an empty tag list and for every tag
\* sequence without a recognized key holding a non-empty value (a key that
\* differs from a recognized one in letter case only is not recognized), and
\* the owner key it returns is never the empty string.
C5_UntaggedFallback ==
    rdone =>
        /\ ~HasRecognized(rtags) => rres = UNTAGGED
        /\ rres # <<>>

\* a sequence whose only keyed values sit under "APPLICATION" and under a
\* recognized key with an empty value resolves to "untagged"
C5_Witness ==
    /\ rdone
    /\ Len(rtags) = 2
    /\ rtags[1] = TagDict("APPLICATION", <<65, 32, 98>>)
    /\ rtags[2] = TagDict("project", <<>>)
    /\ rres = UNTAGGED

(***************************************************************************)
(* Reading of the claims about a run.                                      *)
(***************************************************************************)
\* the records of an inventory
RecordsOf(inv) == UNION { { inv[k][i] : i \in 1..Len(inv[k]) } : k \in DOMAIN inv }

\* the places <<owner key, position>> of an inventory that hold a record built
\* from listed resource n
RecordsNamed(inv, n) ==
    UNION { { <<k, i>> : i \in { j \in 1..Len(inv[k]) : inv[k][j].name = n } } :
            k \in DOMAIN inv }

\* the listing call of family f raised (the collector was aborted at f, and
\* not by its get_client)
ListingFailed(f) ==
    /\ f \in failed
    /\ ~(StageFor(f) = "client" /\ ClientOf(f) \in clientErr)

\* the tag call or describe_table of a listed resource raised
FetchFailed(d) == d.tagres = "error" \/ d.detail = "error"

\* C1 as stated: if a listing call of the collector for service S fails (on
\* the first page, on a later page, or on the second family's listing), the
\* Inventory run_inventory returns holds no record with service = S, and it
\* holds the record of every resource the collectors of the other services
\* recorded.
C1_AsStated ==
    pc = "returned" =>
        \A f \in 1..NFam :
            ListingFailed(f) =>
                /\ \A r \in RecordsOf(results) : r.service # ServiceOf(f)
                /\ \A n \in 1..Len(listed) :
                     (/\ ServiceOf(listed[n].fam) # ServiceOf(f)
                      /\ ~Raises(listed[n].fam, listed[n].d))
                        => Cardinality(RecordsNamed(results, n)) = 1

\* C2 as stated: in every collector, a listed resource whose tag/detail fetch
\* fails never appears in the final Inventory, and every other resource the
\* same collector listed whose own fetch succeeds appears exactly once.
C2_AsStated ==
    pc = "returned" =>
        \A n \in 1..Len(listed) :
            FetchFailed(listed[n].d) =>
                /\ RecordsNamed(results, n) = {}
                /\ \A m \in 1..Len(listed) :
                     (/\ CollectorOf(listed[m].fam) = CollectorOf(listed[n].fam)
                      /\ ~FetchFailed(listed[m].d))
                        => Cardinality(RecordsNamed(results, m)) = 1

\* C3 as stated: every record of the Inventory, of the REST and of the HTTP
\* (v2) API generation as of every other service, has as owner key the
\* resolver's result on the record's own tags.
C3_AsStated ==
    \A r \in RecordsOf(inventory) : r.app_name = extract_app_name(r.tags)

\* C7 as stated: when a client or session construction fails the run ends
\* without a record, without a report file and with a non-zero status.
C7_AsStated ==
    (pc = "exit" /\ (session = "none" \/ clientErr # {})) =>
        /\ status # 0
        /\ files = {}
        /\ inventory = <<>>

\* C9 as stated: every listed bucket whose tag retrieval answers NoSuchTagSet
\* is recorded once, with empty tags, under "untagged"; every listed bucket
\* whose tag retrieval fails otherwise has no record.  (The buckets listed
\* after such a bucket are among the buckets quantified over.)
C9_AsStated ==
    pc = "returned" =>
        \A n \in 1..Len(listed) :
            listed[n].fam = 5 =>
                /\ listed[n].d.tagres = "NoSuchTagSet" =>
                     /\ Cardinality(RecordsNamed(results, n)) = 1
                     /\ \A p \in RecordsNamed(results, n) :
                          p[1] = UNTAGGED /\ results[p[1]][p[2]].tags = <<>>
                /\ listed[n].d.tagres = "error" => RecordsNamed(results, n) = {}

\* C10 as stated: a listed resource of a family with a timestamp field whose
\* timestamp is absent (and whose tag fetch did not fail) has a record, with
\* the timestamp field set to the empty string.
C10_AsStated ==
    pc = "returned" =>
        \A n \in 1..Len(listed) :
            (/\ HasTime(listed[n].fam)
             /\ listed[n].d.time = "absent"
             /\ ~FetchFailed(listed[n].d))
                => /\ Cardinality(RecordsNamed(results, n)) = 1
                   /\ \A p \in RecordsNamed(results, n) : results[p[1]][p[2]].time = ""

ReportTagChoices ==
    RawTagChoices \cup { << <<"project", <<80, 32, 97>> >> >> }

\* the answer for a resource of family f that is recorded, with tags raw
Recorded(f, raw) ==
    [fam |-> f,
     d   |-> [tagres |-> "ok", raw |-> raw,
              detail |-> IF f = 4 THEN "ok" ELSE "n/a",
              loc    |-> IF f = 5 THEN "null" ELSE "n/a",
              time   |-> IF HasTime(f) THEN "present" ELSE "n/a"]]

\* the listings of a run, in the order of the collectors
ReportListings ==
    { l \in UNION { [1..n -> { Recorded(f, raw) : f \in {1, 4, 5}, raw \in ReportTagChoices }] :
                    n \in 0..MaxRecords } :
        \A i \in 1..(Len(l) - 1) : l[i].fam <= l[i + 1].fam }

\* the Inventory the collectors build from a listing
RECURSIVE Collected(_, _, _)
Collected(inv, l, i) ==
    IF i > Len(l) THEN inv
    ELSE Collected(ProcessResource(inv, l[i].fam, i, l[i].d), l, i + 1)

\* the get_client calls of a run in which nothing failed
AskedByRun ==
    LET heads == SelectSeq([f \in 1..NFam |-> f], LAMBDA f : StageFor(f) = "client")
    IN  [i \in 1..Len(heads) |-> [service |-> ClientOf(heads[i]), handle |-> i]]

InitReport ==
    /\ pc = "returned"
    /\ status = -1
    /\ session = "ok"
    /\ clients = [n \in { ClientOf(f) : f \in 1..NFam } |->
                    Cardinality({ ClientOf(g) : g \in 1..(CHOOSE f \in 1..NFam : ClientOf(f) = n) })]
    /\ created = Cardinality({ ClientOf(f) : f \in 1..NFam })
    /\ \E l \in ReportListings :
         /\ listed = l
         /\ inventory = Collected(<<>>, l, 1)
    /\ results = inventory
    /\ fam = NFam + 1
    /\ stage = "done"
    /\ pages = 0
    /\ calls = AllCollectors
    /\ failed = {}
    /\ clientErr = {}
    /\ files = {}
    /\ summary = NoSummary
    /\ scope = [resources |-> MaxRecords, events |-> MaxRecords]
    /\ rtags = <<>>
    /\ rdone = FALSE
    /\ rres = <<>>
    /\ asked = AskedByRun

NextReport == generate_reports

SpecReport == InitReport /\ [][NextReport]_vars

(***************************************************************************)
(* Reading of the claim about the summary.                                 *)
(***************************************************************************)
\* a comes before b in lexicographic order of code points
LexBefore(a, b) ==
    \E i \in 1..(Len(a) + 1) :
        /\ \A j \in 1..(i - 1) : j <= Len(b) /\ a[j] = b[j]
        /\ \/ i = Len(a) + 1 /\ Len(b) > Len(a)
           \/ i <= Len(a) /\ i <= Len(b) /\ a[i] < b[i]

\* sum of the values of a mapping
RECURSIVE SumValues(_)
SumValues(m) ==
    IF DOMAIN m = {} THEN 0
    ELSE LET k == CHOOSE x \in DOMAIN m : TRUE
         IN  m[k] + SumValues([x \in DOMAIN m \ {k} |-> m[x]])

\* sum of the lengths of the buckets
RECURSIVE SumLengths(_)
SumLengths(inv) ==
    IF DOMAIN inv = {} THEN 0
    ELSE LET k == CHOOSE x \in DOMAIN inv : TRUE
         IN  Len(inv[k]) + SumLengths([x \in DOMAIN inv \ {k} |-> inv[x]])

\* C8: in the summary, the owner keys appear in ascending lexicographic
\* order, one block per owner key of the Inventory; each owner's per-service
\* counts are the numbers of its records of each service and sum to its
\* reported total, which is the length of its bucket; the grand total is the
\* sum of the bucket lengths; the number of owners is the number of distinct
\* owner keys of the Inventory's records.
C8_SummaryTotals ==
    (pc = "exit" /\ files # {}) =>
        /\ \A i, j \in 1..Len(summary.apps) :
             i < j => LexBefore(summary.apps[i].app_name, summary.apps[j].app_name)
        /\ { summary.apps[i].app_name : i \in 1..Len(summary.apps) } = DOMAIN inventory
        /\ \A i \in 1..Len(summary.apps) :
             LET b == summary.apps[i] IN
             /\ \A s \in DOMAIN b.counts :
                  b.counts[s] = Cardinality({ n \in 1..Len(inventory[b.app_name]) :
                                                 inventory[b.app_name][n].service = s })
             /\ SumValues(b.counts) = b.total
             /\ b.total = Len(inventory[b.app_name])
        /\ summary.total = SumLengths(inventory)
        /\ summary.napps = Cardinality({ r.app_name : r \in RecordsOf(inventory) })

\* scenario A of the spec: a function and a table tagged Application=Pay and
\* an untagged bucket, summarized as "pay" (2) before "untagged" (1), 3
\* resources across 2 applications
C8_Witness ==
    /\ pc = "exit"
    /\ files = ReportFiles
    /\ Len(listed) = 3
    /\ Len(summary.apps) = 2
    /\ summary.apps[1].app_name = <<112, 97, 121>>
    /\ summary.apps[1].total = 2
    /\ summary.apps[1].counts = [s \in {"Lambda", "DynamoDB"} |-> 1]
    /\ summary.apps[2].app_name = UNTAGGED
    /\ summary.apps[2].total = 1
    /\ summary.total = 3
    /\ summary.napps = 2

(***************************************************************************)
(* get_client on its own: any sequence of calls, for the service names the *)
(* program uses, on the object __init__ constructed; session.client may    *)
(* raise at any call that reaches it.                                      *)
(***************************************************************************)
ClientNames == { ClientOf(f) : f \in 1..NFam }

InitClients ==
    /\ pc = "run"
    /\ status = -1
    /\ session = "ok"
    /\ clients = <<>>
    /\ created = 0
    /\ inventory = <<>>
    /\ fam = 1
    /\ stage = "client"
    /\ pages = 0
    /\ listed = <<>>
    /\ calls = <<CollectorOf(1)>>
    /\ failed = {}
    /\ clientErr = {}
    /\ results = <<>>
    /\ files = {}
    /\ summary = NoSummary
    /\ scope = [resources |-> 0, events |-> 0]
    /\ rtags = <<>>
    /\ rdone = FALSE
    /\ rres = <<>>
    /\ asked = <<>>

\* one call get_client(s)
get_client_any ==
    /\ Len(asked) < MaxCalls
    /\ \E s \in ClientNames : \E ok \in BOOLEAN : get_client_body(s, ok)
    /\ UNCHANGED <<pc, status, session, inventory, fam, stage, pages, listed,
                   calls, failed, results, files, summary, scope, rtags, rdone, rres>>

NextClients == get_client_any

SpecClients == InitClients /\ [][NextClients]_vars

(***************************************************************************)
(* Reading of the claim about the client cache.                            *)
(***************************************************************************)
\* the call that has just been made
LastAsked == asked'[Len(asked')]

\* a cached handle is neither replaced nor removed, and a call for a cached
\* name returns the cached handle and creates nothing
CachedHandleKept ==
    /\ \A s \in DOMAIN clients : s \in DOMAIN clients' /\ clients'[s] = clients[s]
    /\ Len(asked') = Len(asked) + 1 /\ LastAsked.service \in DOMAIN clients
          => /\ LastAsked.handle = clients[LastAsked.service]
             /\ created' = created

\* every handle created is cached under one name, and the calls for one name
\* return one handle from the first call that did not raise
OneHandlePerName ==
    /\ created = Cardinality(DOMAIN clients)
    /\ \A s, u \in DOMAIN clients : clients[s] = clients[u] => s = u
    /\ \A i, j \in 1..Len(asked) :
          i < j /\ asked[i].service = asked[j].service /\ asked[i].handle # 0
              => asked[j].handle = asked[i].handle

\* C11: over any sequence of get_client calls of one run a handle is created
\* at most once per service name whose creation succeeded: once a handle is
\* cached for a name, every later call for that name returns that handle and
\* creates nothing, and no call replaces or removes the handle cached for
\* another name.
C11_HandleCreatedOnce == []OneHandlePerName /\ [][CachedHandleKept]_vars

\* Three calls: a handle is created for one name, one for another name, and
\* the first name is asked again and gets its first handle.
C11_Witness ==
    /\ Len(asked) = 3
    /\ asked[1].service = "rds" /\ asked[1].handle = 1
    /\ asked[2].service = "s3" /\ asked[2].handle = 2
    /\ asked[3].service = "rds" /\ asked[3].handle = 1
    /\ created = 2
    /\ clients = [n \in {"rds", "s3"} |-> IF n = "rds" THEN 1 ELSE 2]

(***************************************************************************)
(* Reading of the claim about the growth of the Inventory.                 *)
(***************************************************************************)
\* a is a prefix of b
IsPrefix(a, b) == Len(a) <= Len(b) /\ SubSeq(b, 1, Len(a)) = a

\* every bucket of this state is a prefix of the same bucket of the next
BucketsExtended ==
    \A k \in DOMAIN inventory :
        k \in DOMAIN inventory' /\ IsPrefix(inventory[k], inventory'[k])

\* the collector that produced a record
ProducerOf(rec) == CollectorOf(listed[rec.name].fam)

\* in a bucket, the records of one collector stand in the order in which the
\* collector's listings returned their resources
InProductionOrder ==
    \A k \in DOMAIN inventory : \A i, j \in 1..Len(inventory[k]) :
        i < j /\ ProducerOf(inventory[k][i]) = ProducerOf(inventory[k][j])
            => inventory[k][i].name < inventory[k][j].name

\* C12: the Inventory is append-only for the whole run: each bucket at an
\* earlier state is a prefix of that bucket at every later state, through all
\* collectors, collector failures and report generation, so that no record is
\* deleted, moved, reordered or mutated, and the records of one collector stay
\* in the order in which the collector produced them.
C12_InventoryAppendOnly == []InProductionOrder /\ [][BucketsExtended]_vars

\* The reports are written and one bucket holds two records, appended by two
\* different collectors.
C12_Witness ==
    /\ pc = "exit"
    /\ files = ReportFiles
    /\ \E k \in DOMAIN inventory :
          /\ Len(inventory[k]) = 2
          /\ ProducerOf(inventory[k][1]) # ProducerOf(inventory[k][2])
          /\ results[k] = inventory[k]

====
